---- MODULE Spec2Model ----
(***************************************************************************)
(* Goal-cache archive store backed by Google Cloud Storage.                *)
(*                                                                         *)
(* The source holds two lineages of lib/cache.ts: the 2020 one (bounded    *)
(* retry through doWithRetry, flat object path) and the 2019 one (a single *)
(* attempt, workspace-scoped object path with classifier placeholders).    *)
(* The variable "lineage" selects which of the two a behaviour runs.       *)
(*                                                                         *)
(* JavaScript strings are modelled as sequences of one-character strings,  *)
(* so that concatenation, joining, regular-expression replacement and      *)
(* lower-casing are computed character by character.  An optional value    *)
(* (a property that may be undefined) is a sequence of length 0 or 1.      *)
(***************************************************************************)
EXTENDS Integers, Sequences, FiniteSets, TLC

(* ---- string literals of the source ---- *)
sGoalCache == <<"g", "o", "a", "l", "-", "c", "a", "c", "h", "e">>
sSdmDash == <<"s", "d", "m", "-">>
sDash == <<"-">>
sDashGoalCache == <<"-", "g", "o", "a", "l", "-", "c", "a", "c", "h", "e">>
sSlash == <<"/">>
sCacheTarGz == <<"c", "a", "c", "h", "e", ".", "t", "a", "r", ".", "g", "z">>
sDefault == <<"d", "e", "f", "a", "u", "l", "t">>
sEmpty == <<>>
sStore == <<"s", "t", "o", "r", "e">>
sDelete == <<"d", "e", "l", "e", "t", "e">>
sRetrieve == <<"r", "e", "t", "r", "i", "e", "v", "e">>
sIng == <<"i", "n", "g">>
sCacheArchive == <<" ", "c", "a", "c", "h", "e", " ", "a", "r", "c", "h", "i", "v", "e", " ">>
sDCacheArchive == <<"d", " ", "c", "a", "c", "h", "e", " ", "a", "r", "c", "h", "i", "v", "e", " ">>
sGs == <<"g", "s", ":", "/", "/">>
sFailedTo == <<"F", "a", "i", "l", "e", "d", " ", "t", "o", " ">>
sColonSpace == <<":", " ">>
sPhProviderId == <<"$", "{", "p", "r", "o", "v", "i", "d", "e", "r", "I", "d", "}">>
sPhOwner == <<"$", "{", "o", "w", "n", "e", "r", "}">>
sPhRepo == <<"$", "{", "r", "e", "p", "o", "}">>
sPhBranch == <<"$", "{", "b", "r", "a", "n", "c", "h", "}">>
sPhSha == <<"$", "{", "s", "h", "a", "}">>

(* ---- strings used as inputs (taken from test/cache.test.ts) ---- *)
sTH3BY4D5 == <<"T", "H", "3", "B", "Y", "4", "D", "5">>
sWORKSPACEx == <<"W", "O", "R", "K", "S", "P", "A", "C", "E", "x">>
sNameRodeo == <<"s", "w", "e", "e", "t", "h", "e", "a", "r", "t", "-", "o", "f", "-", "t", "h", "e", "-", "r", "o", "d", "e", "o">>
sNameMessy == <<"@", "S", "w", "e", "e", "t", "h", "e", "a", "r", "t", "/", "o", "f", "-", "-", "t", "h", "e", "-", "R", "o", "d", "e", "o", "-">>
sHickoryWind == <<"h", "i", "c", "k", "o", "r", "y", "-", "w", "i", "n", "d">>
sLazyDays == <<"l", "a", "z", "y", "/", "d", "a", "y", "s">>
sPilgrim == <<"i", "-", "a", "m", "-", "a", "-", "p", "i", "l", "g", "r", "i", "m">>
sBucketRodeo == <<"s", "d", "m", "-", "t", "h", "3", "b", "y", "4", "d", "5", "-", "s", "w", "e", "e", "t", "h", "e", "a", "r", "t", "-", "o", "f", "-", "t", "h", "e", "-", "r", "o", "d", "e", "o", "-", "g", "o", "a", "l", "-", "c", "a", "c", "h", "e">>
sBucketMessy == <<"s", "d", "m", "-", "t", "h", "3", "b", "y", "4", "d", "5", "-", "s", "w", "e", "e", "t", "h", "e", "a", "r", "t", "o", "f", "-", "t", "h", "e", "-", "r", "o", "d", "e", "o", "-", "g", "o", "a", "l", "-", "c", "a", "c", "h", "e">>
s100years == <<"1", "0", "0", "y", "e", "a", "r", "s", "f", "r", "o", "m", "n", "o", "w">>
sStillOnMyMind == <<"Y", "o", "u", "r", "e", "S", "t", "i", "l", "l", "O", "n", "M", "y", "M", "i", "n", "d">>
sNowhere == <<"y", "o", "u", "-", "a", "i", "n", "t", "-", "g", "o", "i", "n", "-", "n", "o", "w", "h", "e", "r", "e">>
sChristianLife == <<"t", "h", "e", "-", "c", "h", "r", "i", "s", "t", "i", "a", "n", "-", "l", "i", "f", "e">>
sSha808 == <<"8", "0", "8", "e", "d", "d", "b", "6">>
sBucketWsx == <<"s", "d", "m", "-", "w", "o", "r", "k", "s", "p", "a", "c", "e", "x", "-", "s", "w", "e", "e", "t", "h", "e", "a", "r", "t", "-", "o", "f", "-", "t", "h", "e", "-", "r", "o", "d", "e", "o", "-", "g", "o", "a", "l", "-", "c", "a", "c", "h", "e">>
sProviderx == <<"p", "r", "o", "v", "i", "d", "e", "r", "x">>
sOwnerx == <<"o", "w", "n", "e", "r", "x">>
sNamex == <<"n", "a", "m", "e", "x">>
sBranchx == <<"b", "r", "a", "n", "c", "h", "x">>
sShax == <<"s", "h", "a", "x">>
sClassifierx == <<"c", "l", "a", "s", "s", "i", "f", "i", "e", "r", "x">>
sTemplated == <<"$", "{", "o", "w", "n", "e", "r", "}", "/", "$", "{", "r", "e", "p", "o", "}", "/", "x">>

sNameDashed == <<"M", "y", "-", "_", "-", "A", "p", "p">>
sBucketDashed == <<"s", "d", "m", "-", "w", "o", "r", "k", "s", "p", "a", "c", "e", "x", "-", "m", "y", "-", "a", "p", "p", "-", "g", "o", "a", "l", "-", "c", "a", "c", "h", "e">>

sBoom == <<"b", "o", "o", "m">>
sNoSuchObject == <<"N", "o", " ", "s", "u", "c", "h", " ", "o", "b", "j", "e", "c", "t">>

(* ---- bounds ---- *)
\* calls issued in one behaviour
MaxCalls == 2
\* attempts doWithRetry makes after the first one
MaxRetries == 1

(* ---- JavaScript string primitives ---- *)
UpperChars == <<"A", "B", "C", "D", "E", "F", "G", "H", "I", "J", "K", "L", "M", "N", "O", "P", "Q", "R", "S", "T", "U", "V", "W", "X", "Y", "Z">>
LowerChars == <<"a", "b", "c", "d", "e", "f", "g", "h", "i", "j", "k", "l", "m", "n", "o", "p", "q", "r", "s", "t", "u", "v", "w", "x", "y", "z">>
DigitChars == {"0", "1", "2", "3", "4", "5", "6", "7", "8", "9"}

\* String.prototype.toLowerCase
lowerOf == [c \in {UpperChars[k] : k \in 1..26} |-> LowerChars[CHOOSE k \in 1..26 : UpperChars[k] = c]]
toLowerCase(s) == [i \in 1..Len(s) |-> IF s[i] \in DOMAIN lowerOf THEN lowerOf[s[i]] ELSE s[i]]

\* Array.prototype.join
RECURSIVE join(_, _)
join(parts, sep) ==
    IF Len(parts) = 0 THEN <<>>
    ELSE IF Len(parts) = 1 THEN parts[1]
    ELSE parts[1] \o sep \o join(Tail(parts), sep)

\* the replacement patterns String.prototype.replace interprets in its
\* second argument: $$ $& $` $'
RECURSIVE expandReplacement(_, _, _, _)
expandReplacement(rep, matched, before, after) ==
    IF Len(rep) = 0 THEN <<>>
    ELSE IF rep[1] = "$" /\ Len(rep) >= 2 /\ rep[2] = "$"
         THEN <<"$">> \o expandReplacement(SubSeq(rep, 3, Len(rep)), matched, before, after)
    ELSE IF rep[1] = "$" /\ Len(rep) >= 2 /\ rep[2] = "&"
         THEN matched \o expandReplacement(SubSeq(rep, 3, Len(rep)), matched, before, after)
    ELSE IF rep[1] = "$" /\ Len(rep) >= 2 /\ rep[2] = "`"
         THEN before \o expandReplacement(SubSeq(rep, 3, Len(rep)), matched, before, after)
    ELSE IF rep[1] = "$" /\ Len(rep) >= 2 /\ rep[2] = "'"
         THEN after \o expandReplacement(SubSeq(rep, 3, Len(rep)), matched, before, after)
    ELSE <<rep[1]>> \o expandReplacement(Tail(rep), matched, before, after)

\* s.replace(/<pat>/g, rep) for a pattern that matches the literal pat
RECURSIVE replaceFrom(_, _, _, _)
replaceFrom(s, i, pat, rep) ==
    IF i > Len(s) THEN <<>>
    ELSE IF i + Len(pat) - 1 <= Len(s) /\ SubSeq(s, i, i + Len(pat) - 1) = pat
         THEN expandReplacement(rep, pat, SubSeq(s, 1, i - 1), SubSeq(s, i + Len(pat), Len(s)))
                  \o replaceFrom(s, i + Len(pat), pat, rep)
    ELSE <<s[i]>> \o replaceFrom(s, i + 1, pat, rep)

replaceAll(s, pat, rep) == replaceFrom(s, 1, pat, rep)

\* .replace(/[^-a-z0-9]*/g, "")
BucketChars == {"-"} \cup DigitChars \cup {LowerChars[k] : k \in 1..26}
stripNonBucketChars(s) == SelectSeq(s, LAMBDA c : c \in BucketChars)

\* .replace(/--+/g, "-")
RECURSIVE collapseDashes(_)
collapseDashes(s) ==
    IF Len(s) < 2 THEN s
    ELSE IF s[1] = "-" /\ s[2] = "-" THEN collapseDashes(Tail(s))
    ELSE <<s[1]>> \o collapseDashes(Tail(s))

\* verb.replace(/e$/, "ing")
gerundOf(verb) ==
    IF Len(verb) > 0 /\ verb[Len(verb)] = "e"
    THEN SubSeq(verb, 1, Len(verb) - 1) \o sIng
    ELSE verb


(* ---- invocation contexts ---- *)
\* the SDM configurations; gi.configuration.name
Configurations == {"A", "B", "C"}
configurationName(c) == IF c = "A" THEN sNameRodeo ELSE IF c = "B" THEN sNameMessy ELSE sNameDashed

\* the goal invocations: gi.configuration, gi.context.workspaceId and
\* gi.goalEvent.{repo.providerId, repo.owner, repo.name, branch, sha}
Invocations == {1, 2, 3, 4}
GoalInvocation(g) ==
    CASE g = 1 -> [configuration |-> "A", workspaceId |-> sTH3BY4D5, providerId |-> s100years,
                   owner |-> sStillOnMyMind, repo |-> sNowhere, branch |-> sChristianLife, sha |-> sSha808]
      [] g = 2 -> [configuration |-> "A", workspaceId |-> sWORKSPACEx, providerId |-> s100years,
                   owner |-> sStillOnMyMind, repo |-> sNowhere, branch |-> sChristianLife, sha |-> sSha808]
      [] g = 3 -> [configuration |-> "B", workspaceId |-> sTH3BY4D5, providerId |-> sProviderx,
                   owner |-> sOwnerx, repo |-> sNamex, branch |-> sBranchx, sha |-> sShax]
      [] g = 4 -> [configuration |-> "C", workspaceId |-> sWORKSPACEx, providerId |-> sProviderx,
                   owner |-> sOwnerx, repo |-> sNamex, branch |-> sBranchx, sha |-> sShax]

\* gi.configuration.sdm.cache: undefined (<<>>) or an object whose bucket,
\* enabled and path are each undefined (<<>>) or set
NoCache == <<>>
CacheBlocks(buckets, enableds, paths) ==
    {NoCache} \cup
    { <<[bucket |-> b, enabled |-> e, path |-> p]>> :
        b \in {<<>>} \cup {<<x>> : x \in buckets},
        e \in {<<>>} \cup {<<x>> : x \in enableds},
        p \in {<<>>} \cup {<<x>> : x \in paths} }

VARIABLES
    lineage,      \* "v2020" or "v2019": which lineage of cache.ts runs
    cache,        \* configuration -> gi.configuration.sdm.cache
    objects,      \* the bucket contents: <<bucket, key>> -> content
    files,        \* the local file system: path -> content
    calls,        \* slot -> the store/retrieve/delete call running in it
    started,      \* number of calls issued so far
    clientLog,    \* slot -> what its call passed to the process-wide logger:
                  \* sequence of [level, msg]
    progressLog,  \* slot -> what its call wrote to gi.progressLog
    ret           \* arguments and return value of the last direct call of
                  \* an exported function

vars == <<lineage, cache, objects, files, calls, started, clientLog, progressLog, ret>>

(* ---- lib/cache.ts: configuration and object path ---- *)
\* x || d for an optional string x: undefined and "" are falsy
orString(x, d) == IF x = <<>> \/ x[1] = <<>> THEN d ELSE x[1]
\* x || false for an optional boolean x
orFalse(x) == IF x = <<>> THEN FALSE ELSE x[1]

\* the default bucket with runs of dashes collapsed before the other
\* characters are removed
defaultBucketCollapseFirst(gi) ==
    stripNonBucketChars(collapseDashes(toLowerCase(
        sSdmDash \o gi.workspaceId \o sDash \o configurationName(gi.configuration) \o sDashGoalCache)))

\* the default of cacheConfig.bucket
defaultBucket(gi) ==
    collapseDashes(stripNonBucketChars(toLowerCase(
        sSdmDash \o gi.workspaceId \o sDash \o configurationName(gi.configuration) \o sDashGoalCache)))

\* getCacheConfig with "enabled" defaulting to true
getCacheConfigEnabledByDefault(gi, block) ==
    LET cacheConfig == IF block = NoCache
                       THEN [bucket |-> <<>>, enabled |-> <<>>, path |-> <<>>]
                       ELSE block[1]
    IN  [enabled |-> IF cacheConfig.enabled = <<>> THEN TRUE ELSE cacheConfig.enabled[1],
         bucket  |-> orString(cacheConfig.bucket, defaultBucket(gi)),
         path    |-> orString(cacheConfig.path, sGoalCache)]

\* getCacheConfig falling back to all the defaults as soon as one field is
\* missing
getCacheConfigAllOrNothing(gi, block) ==
    LET complete == /\ block # NoCache
                    /\ block[1].bucket \notin {<<>>, <<sEmpty>>}
                    /\ block[1].path \notin {<<>>, <<sEmpty>>}
                    /\ block[1].enabled # <<>>
    IN  IF complete
        THEN [enabled |-> block[1].enabled[1], bucket |-> block[1].bucket[1], path |-> block[1].path[1]]
        ELSE [enabled |-> FALSE, bucket |-> defaultBucket(gi), path |-> sGoalCache]

\* getCacheConfig sanitizing the path prefix the way it sanitizes the
\* default bucket
getCacheConfigSanitizesPath(gi, block) ==
    LET cacheConfig == IF block = NoCache
                       THEN [bucket |-> <<>>, enabled |-> <<>>, path |-> <<>>]
                       ELSE block[1]
    IN  [enabled |-> orFalse(cacheConfig.enabled),
         bucket  |-> orString(cacheConfig.bucket, defaultBucket(gi)),
         path    |-> stripNonBucketChars(orString(cacheConfig.path, sGoalCache))]

\* getCacheConfig(gi), given the value block of gi.configuration.sdm.cache:
\* the object it returns
getCacheConfig(gi, block) ==
    LET cacheConfig == IF block = NoCache
                       THEN [bucket |-> <<>>, enabled |-> <<>>, path |-> <<>>]
                       ELSE block[1]
    IN  [enabled |-> orFalse(cacheConfig.enabled),
         bucket  |-> orString(cacheConfig.bucket, defaultBucket(gi)),
         path    |-> orString(cacheConfig.path, sGoalCache)]

\* getCacheConfig assigns the three fields on gi.configuration.sdm.cache
\* itself when that object exists, and on a fresh object otherwise
cacheAfterGetCacheConfig(gi, block) ==
    IF block = NoCache THEN NoCache
    ELSE LET c == getCacheConfig(gi, block)
         IN  <<[bucket |-> <<c.bucket>>, enabled |-> <<c.enabled>>, path |-> <<c.path>>]>>

\* a classifier argument that is undefined takes the default "default"
classifierOrDefault(classifier) == IF classifier = <<>> THEN sDefault ELSE classifier[1]

\* 2020 lineage: getCachePath(cacheConfig, classifier)
getCachePath2020(cacheConfig, classifier) ==
    join(<<cacheConfig.path, classifierOrDefault(classifier), sCacheTarGz>>, sSlash)

\* 2019 lineage: the classifier with its placeholders replaced
classifierPath(gi, classifier) ==
    replaceAll(replaceAll(replaceAll(replaceAll(replaceAll(classifierOrDefault(classifier),
        sPhProviderId, gi.providerId),
        sPhOwner, gi.owner),
        sPhRepo, gi.repo),
        sPhBranch, gi.branch),
        sPhSha, gi.sha)

\* 2019 lineage: getCachePath(gi, classifier)
getCachePath2019(gi, block, classifier) ==
    LET cacheConfig == getCacheConfig(gi, block)
    IN  join(<<cacheConfig.path, gi.workspaceId, classifierPath(gi, classifier), sCacheTarGz>>, sSlash)

\* the object path gcs resolves: getCachePath of the lineage that runs
resolveCachePath(l, gi, block, classifier) ==
    IF l = "v2020"
    THEN getCachePath2020(getCacheConfig(gi, block), classifier)
    ELSE getCachePath2019(gi, block, classifier)

\* objectUri of gcs
objectUriOf(bucket, cachePath) == sGs \o bucket \o sSlash \o cachePath


(* ---- direct calls of the exported functions ---- *)
NoRet == [fn |-> "none", gi |-> 0, block |-> NoCache, classifier |-> <<>>,
          config |-> [enabled |-> FALSE, bucket |-> <<>>, path |-> <<>>], path |-> <<>>]

\* the classifiers passed to getCachePath; <<>> is an omitted argument
PureClassifiers == {<<>>, <<sPilgrim>>, <<sTemplated>>, <<sClassifierx>>}

\* getCacheConfig(gi) called by a client, as the tests do
callGetCacheConfig(g) ==
    LET gi == GoalInvocation(g)
        block == cache[gi.configuration]
    IN  /\ ret' = [fn |-> "getCacheConfig", gi |-> g, block |-> block, classifier |-> <<>>,
                   config |-> getCacheConfig(gi, block), path |-> <<>>]
        /\ cache' = [cache EXCEPT ![gi.configuration] = cacheAfterGetCacheConfig(gi, block)]
        /\ UNCHANGED <<lineage, objects, files, calls, started, clientLog, progressLog>>

\* getCachePath called by a client: getCachePath(getCacheConfig(gi), classifier)
\* in the 2020 lineage, getCachePath(gi, classifier) in the 2019 lineage
callGetCachePath(g, classifier) ==
    LET gi == GoalInvocation(g)
        block == cache[gi.configuration]
    IN  /\ ret' = [fn |-> "getCachePath", gi |-> g, block |-> block, classifier |-> classifier,
                   config |-> getCacheConfig(gi, block),
                   path |-> <<resolveCachePath(lineage, gi, block, classifier)>>]
        /\ cache' = [cache EXCEPT ![gi.configuration] = cacheAfterGetCacheConfig(gi, block)]
        /\ UNCHANGED <<lineage, objects, files, calls, started, clientLog, progressLog>>


(* ---- the object store and the local file system ---- *)
EmptyMap == [x \in {} |-> ""]
put(map, key, value) == [k \in DOMAIN map \cup {key} |-> IF k = key THEN value ELSE map[k]]
remove(map, key) == [k \in DOMAIN map \ {key} |-> map[k]]

\* File.exists()
exists(bucket, cachePath) == <<bucket, cachePath>> \in DOMAIN objects

\* the local archives store calls name, and the path retrieve calls write
ArchivePaths == {"in1", "in2"}
TargetPaths == {"out"}
InitialFiles == [p \in ArchivePaths |-> IF p = "in1" THEN "X" ELSE "Y"]

(* ---- GoogleCloudStorageGoalCacheArchiveStore ---- *)
\* two calls may be in flight at once; a slot holds one running call
Slots == {1, 2}
\* the cache entries the store is called for, and the archive each
\* invocation has built
Entries == {<<1, sPilgrim>>, <<3, sPilgrim>>, <<1, sTemplated>>}
archiveOf(g) == IF g = 1 THEN "in1" ELSE "in2"

IdleCall == [pc |-> "idle", verb |-> <<>>, gi |-> 0, classifier |-> <<>>, localPath |-> "",
             bucket |-> <<>>, cachePath |-> <<>>, objectUri |-> <<>>,
             attempts |-> 0, error |-> <<>>, outcome |-> "none"]

\* attempts of the storage call one gcs call makes: doWithRetry in the 2020
\* lineage, the bare call in the 2019 lineage
attemptsAllowed(l) == IF l = "v2020" THEN 1 + MaxRetries ELSE 1

\* ll(msg, pl, l): l(msg) on the client logger, pl.write(msg).  Both sinks
\* are kept per call; a slot's record starts afresh with each call
llClient(log, s, msg, level) == [log EXCEPT ![s] = Append(@, [level |-> level, msg |-> msg])]
\* ll that leaves the progress log out
llProgressSkipped(pl, s, msg) == pl
llProgress(pl, s, msg) == [pl EXCEPT ![s] = Append(@, msg)]

\* a slot is free when no call runs in it: it never held one, or the call
\* it held has returned or thrown
free(s) == calls[s].pc \in {"idle", "done"}

\* gcs that returns at once when the resolved configuration is not enabled
gcsOnlyWhenEnabled(s, g, classifier, verb, localPath) ==
    /\ free(s)
    /\ \A t \in Slots : free(t) => s <= t
    /\ started < MaxCalls
    /\ LET gi == GoalInvocation(g)
           block == cache[gi.configuration]
       IN  \E cacheConfig \in {getCacheConfig(gi, block)} :
           \E cachePath \in {resolveCachePath(lineage, gi, cacheAfterGetCacheConfig(gi, block), <<classifier>>)} :
           \E objectUri \in {objectUriOf(cacheConfig.bucket, cachePath)} :
           \E msg \in {gerundOf(verb) \o sCacheArchive \o objectUri} :
              /\ started' = started + 1
              /\ cache' = [cache EXCEPT ![gi.configuration] = cacheAfterGetCacheConfig(gi, block)]
              /\ clientLog' = llClient([clientLog EXCEPT ![s] = <<>>], s, msg, "debug")
              /\ progressLog' = llProgress([progressLog EXCEPT ![s] = <<>>], s, msg)
              /\ calls' = [calls EXCEPT ![s] =
                              [pc |-> IF cacheConfig.enabled THEN "inflight" ELSE "resolved",
                               verb |-> verb, gi |-> g, classifier |-> classifier,
                               localPath |-> localPath, bucket |-> cacheConfig.bucket,
                               cachePath |-> cachePath, objectUri |-> objectUri,
                               attempts |-> 0, error |-> <<>>, outcome |-> "none"]]
    /\ UNCHANGED <<lineage, objects, files, ret>>

\* gcs up to the point where the storage call is issued: resolve the
\* configuration and the object path, log the start message
gcs(s, g, classifier, verb, localPath) ==
    /\ free(s)
    /\ \A t \in Slots : free(t) => s <= t
    /\ started < MaxCalls
    /\ LET gi == GoalInvocation(g)
           block == cache[gi.configuration]
       IN  \E cacheConfig \in {getCacheConfig(gi, block)} :
           \E cachePath \in {resolveCachePath(lineage, gi, cacheAfterGetCacheConfig(gi, block), <<classifier>>)} :
           \E objectUri \in {objectUriOf(cacheConfig.bucket, cachePath)} :
           \E msg \in {gerundOf(verb) \o sCacheArchive \o objectUri} :
              /\ started' = started + 1
              /\ cache' = [cache EXCEPT ![gi.configuration] = cacheAfterGetCacheConfig(gi, block)]
              /\ clientLog' = llClient([clientLog EXCEPT ![s] = <<>>], s, msg, "debug")
              /\ progressLog' = llProgress([progressLog EXCEPT ![s] = <<>>], s, msg)
              /\ calls' = [calls EXCEPT ![s] =
                              [pc |-> "inflight", verb |-> verb, gi |-> g, classifier |-> classifier,
                               localPath |-> localPath, bucket |-> cacheConfig.bucket,
                               cachePath |-> cachePath, objectUri |-> objectUri,
                               attempts |-> 0, error |-> <<>>, outcome |-> "none"]]
    /\ UNCHANGED <<lineage, objects, files, ret>>

store(s, g, classifier, archivePath) == gcs(s, g, classifier, sStore, archivePath)
delete(s, g, classifier) == gcs(s, g, classifier, sDelete, "")
retrieve(s, g, classifier, targetArchivePath) == gcs(s, g, classifier, sRetrieve, targetArchivePath)

\* the promise of the storage call settles
settle(s, error) ==
    calls' = [calls EXCEPT ![s].pc = IF error = <<>> THEN "resolved" ELSE "rejected",
                           ![s].attempts = @ + 1,
                           ![s].error = error]

\* an upload that, when it fails, leaves what it had transferred so far at
\* the destination
uploadLeavesPartial(s) ==
    LET c == calls[s] IN
    /\ c.pc = "inflight" /\ c.verb = sStore
    /\ \/ /\ c.localPath \in DOMAIN files
          /\ objects' = put(objects, <<c.bucket, c.cachePath>>, files[c.localPath])
          /\ settle(s, <<>>)
       \/ /\ objects' = put(objects, <<c.bucket, c.cachePath>>, "partial")
          /\ settle(s, <<sBoom>>)
    /\ UNCHANGED <<lineage, cache, files, started, clientLog, progressLog, ret>>

\* an upload that leaves an object that is already there as it is
uploadKeepsExisting(s) ==
    LET c == calls[s] IN
    /\ c.pc = "inflight" /\ c.verb = sStore
    /\ \/ /\ c.localPath \in DOMAIN files
          /\ objects' = IF exists(c.bucket, c.cachePath) THEN objects
                        ELSE put(objects, <<c.bucket, c.cachePath>>, files[c.localPath])
          /\ settle(s, <<>>)
       \/ /\ objects' = objects
          /\ settle(s, <<sBoom>>)
    /\ UNCHANGED <<lineage, cache, files, started, clientLog, progressLog, ret>>

\* upload without the "destination" option: the object is named after the
\* local file
uploadWithoutDestination(s) ==
    LET c == calls[s] IN
    /\ c.pc = "inflight" /\ c.verb = sStore
    /\ \/ /\ c.localPath \in DOMAIN files
          /\ objects' = put(objects, <<c.bucket, <<c.localPath>>>>, files[c.localPath])
          /\ settle(s, <<>>)
       \/ /\ objects' = objects
          /\ settle(s, <<sBoom>>)
    /\ UNCHANGED <<lineage, cache, files, started, clientLog, progressLog, ret>>

\* storage.bucket(bucket).upload(archivePath, {destination: cachePath, resumable: false})
upload(s) ==
    LET c == calls[s] IN
    /\ c.pc = "inflight" /\ c.verb = sStore
    /\ \/ /\ c.localPath \in DOMAIN files
          /\ objects' = put(objects, <<c.bucket, c.cachePath>>, files[c.localPath])
          /\ settle(s, <<>>)
       \/ /\ objects' = objects
          /\ settle(s, <<sBoom>>)
    /\ UNCHANGED <<lineage, cache, files, started, clientLog, progressLog, ret>>

\* file(cachePath).exists() called where delete() should be
fileExistsOnly(s) ==
    LET c == calls[s] IN
    /\ c.pc = "inflight" /\ c.verb = sDelete
    /\ objects' = objects
    /\ \/ settle(s, <<>>)
       \/ settle(s, <<sBoom>>)
    /\ UNCHANGED <<lineage, cache, files, started, clientLog, progressLog, ret>>

\* storage.bucket(bucket).file(cachePath).delete()
fileDelete(s) ==
    LET c == calls[s] IN
    /\ c.pc = "inflight" /\ c.verb = sDelete
    /\ \/ /\ exists(c.bucket, c.cachePath)
          /\ objects' = remove(objects, <<c.bucket, c.cachePath>>)
          /\ settle(s, <<>>)
       \/ /\ ~exists(c.bucket, c.cachePath)
          /\ objects' = objects
          /\ settle(s, <<sNoSuchObject>>)
       \/ /\ objects' = objects
          /\ settle(s, <<sBoom>>)
    /\ UNCHANGED <<lineage, cache, files, started, clientLog, progressLog, ret>>

\* storage.bucket(bucket).file(cachePath).download({destination: targetArchivePath})
download(s) ==
    LET c == calls[s] IN
    /\ c.pc = "inflight" /\ c.verb = sRetrieve
    /\ \/ /\ exists(c.bucket, c.cachePath)
          /\ files' = put(files, c.localPath, objects[<<c.bucket, c.cachePath>>])
          /\ settle(s, <<>>)
       \/ /\ ~exists(c.bucket, c.cachePath)
          /\ files' = files
          /\ settle(s, <<sNoSuchObject>>)
       \/ /\ files' = files
          /\ settle(s, <<sBoom>>)
    /\ UNCHANGED <<lineage, cache, objects, started, clientLog, progressLog, ret>>

\* a retry that starts counting afresh with every attempt
doWithRetryUncounted(s) ==
    /\ calls[s].pc = "rejected"
    /\ calls' = [calls EXCEPT ![s].pc = "inflight", ![s].attempts = 0]
    /\ UNCHANGED <<lineage, cache, objects, files, started, clientLog, progressLog, ret>>

\* doWithRetry calls the operation again after a rejection
doWithRetry(s) ==
    /\ calls[s].pc = "rejected"
    /\ calls[s].attempts < attemptsAllowed(lineage)
    /\ calls' = [calls EXCEPT ![s].pc = "inflight"]
    /\ UNCHANGED <<lineage, cache, objects, files, started, clientLog, progressLog, ret>>

\* gcs after the awaited call resolved: the completion message
gcsResolved(s) ==
    LET c == calls[s]
        msg == c.verb \o sDCacheArchive \o c.objectUri
    IN  /\ c.pc = "resolved"
        /\ clientLog' = llClient(clientLog, s, msg, "debug")
        /\ progressLog' = llProgress(progressLog, s, msg)
        /\ calls' = [calls EXCEPT ![s].pc = "done", ![s].outcome = "returned"]
        /\ UNCHANGED <<lineage, cache, objects, files, started, ret>>

\* catch blocks that swallow every failure, rethrow every failure, and
\* swallow the failures of store only
rethrowsNothing(verb) == FALSE
rethrowsAll(verb) == TRUE
rethrowsUnlessStore(verb) == verb # sStore

\* whether the catch block of gcs rethrows
rethrows(verb) == verb = sRetrieve

\* a catch block that logs the message of the storage error as it arrived
\* and rewrites it afterwards
gcsCatchLogsOriginal(s) ==
    LET c == calls[s]
        message == sFailedTo \o c.verb \o sCacheArchive \o c.objectUri \o sColonSpace \o c.error[1]
    IN  /\ c.pc = "rejected"
        /\ c.attempts >= attemptsAllowed(lineage)
        /\ clientLog' = llClient(clientLog, s, c.error[1], "error")
        /\ progressLog' = llProgress(progressLog, s, c.error[1])
        /\ calls' = [calls EXCEPT ![s].pc = "done", ![s].error = <<message>>,
                                  ![s].outcome = IF rethrows(c.verb) THEN "thrown" ELSE "returned"]
        /\ UNCHANGED <<lineage, cache, objects, files, started, ret>>

\* a catch block that takes a missing object for an empty cache and returns
gcsCatchMissingIsSuccess(s) ==
    LET c == calls[s]
        message == sFailedTo \o c.verb \o sCacheArchive \o c.objectUri \o sColonSpace \o c.error[1]
    IN  /\ c.pc = "rejected"
        /\ c.attempts >= attemptsAllowed(lineage)
        /\ clientLog' = llClient(clientLog, s, message, "error")
        /\ progressLog' = llProgress(progressLog, s, message)
        /\ calls' = [calls EXCEPT ![s].pc = "done", ![s].error = <<message>>,
                                  ![s].outcome = IF rethrows(c.verb) /\ c.error # <<sNoSuchObject>>
                                                 THEN "thrown" ELSE "returned"]
        /\ UNCHANGED <<lineage, cache, objects, files, started, ret>>

\* gcs after the awaited call finally rejected: the catch block
gcsCatch(s) ==
    LET c == calls[s]
        message == sFailedTo \o c.verb \o sCacheArchive \o c.objectUri \o sColonSpace \o c.error[1]
    IN  /\ c.pc = "rejected"
        /\ c.attempts >= attemptsAllowed(lineage)
        /\ clientLog' = llClient(clientLog, s, message, "error")
        /\ progressLog' = llProgress(progressLog, s, message)
        /\ calls' = [calls EXCEPT ![s].pc = "done", ![s].error = <<message>>,
                                  ![s].outcome = IF rethrows(c.verb) THEN "thrown" ELSE "returned"]
        /\ UNCHANGED <<lineage, cache, objects, files, started, ret>>

(* ---- specifications ---- *)
Lineages == {"v2020", "v2019"}

InitCommon ==
    /\ lineage \in Lineages
    /\ objects = EmptyMap
    /\ files = InitialFiles
    /\ calls = [s \in Slots |-> IdleCall]
    /\ started = 0
    /\ clientLog = [s \in Slots |-> <<>>]
    /\ progressLog = [s \in Slots |-> <<>>]
    /\ ret = NoRet

\* the store: every configuration starts with the same cache block
Init ==
    /\ InitCommon
    /\ \E b \in {NoCache, <<[bucket |-> <<sHickoryWind>>, enabled |-> <<TRUE>>, path |-> <<sLazyDays>>]>>} :
           cache = [c \in Configurations |-> b]

Next ==
    \/ \E s \in Slots, e \in Entries : store(s, e[1], e[2], archiveOf(e[1]))
    \/ \E s \in Slots, e \in Entries : delete(s, e[1], e[2])
    \/ \E s \in Slots, e \in Entries, p \in TargetPaths : retrieve(s, e[1], e[2], p)
    \/ \E s \in Slots : upload(s)
    \/ \E s \in Slots : fileDelete(s)
    \/ \E s \in Slots : download(s)
    \/ \E s \in Slots : doWithRetry(s)
    \/ \E s \in Slots : gcsResolved(s)
    \/ \E s \in Slots : gcsCatch(s)

Spec == Init /\ [][Next]_vars

\* the store when every storage call returns and the event loop runs every
\* continuation that is ready: a call that can take a step takes one
continues(s) ==
    upload(s) \/ fileDelete(s) \/ download(s) \/ doWithRetry(s) \/ gcsResolved(s) \/ gcsCatch(s)

FairSpec == Spec /\ \A s \in Slots : WF_vars(continues(s))

\* the store under configurations that differ in "enabled" alone
InitEnabled ==
    /\ InitCommon
    /\ \E e \in BOOLEAN :
           cache = [c \in Configurations |->
                       <<[bucket |-> <<sHickoryWind>>, enabled |-> <<e>>, path |-> <<sLazyDays>>]>>]

SpecEnabled == InitEnabled /\ [][Next]_vars

\* the exported functions called directly, on every shape of cache block
InitPure ==
    /\ InitCommon
    /\ \E b \in CacheBlocks({sEmpty, sHickoryWind}, {TRUE, FALSE}, {sEmpty, sLazyDays}) :
           cache = [c \in Configurations |-> b]

NextPure ==
    \/ \E g \in Invocations : callGetCacheConfig(g)
    \/ \E g \in Invocations, cl \in PureClassifiers : callGetCachePath(g, cl)

SpecPure == InitPure /\ [][NextPure]_vars


(* ---- properties of the failure policy ---- *)
\* a call has ended and its last attempt failed: gcs went through its catch
\* block, which left the rewritten message in "error"
finallyFailed(c) == c.pc = "done" /\ c.error # <<>>

\* C1: a retrieve whose download failed on every attempt ends by raising an
\* error to its caller, never by returning.
C1_RetrieveRethrows ==
    \A s \in Slots :
        (finallyFailed(calls[s]) /\ calls[s].verb = sRetrieve) => calls[s].outcome = "thrown"

C1_Witness ==
    \E s \in Slots :
        /\ finallyFailed(calls[s]) /\ calls[s].verb = sRetrieve
        /\ lineage = "v2020" /\ calls[s].attempts = 1 + MaxRetries
        /\ exists(calls[s].bucket, calls[s].cachePath)
        /\ calls[s].outcome = "thrown"

\* C2: a store whose upload failed on every attempt returns normally.
C2_StoreSwallows ==
    \A s \in Slots :
        (finallyFailed(calls[s]) /\ calls[s].verb = sStore) => calls[s].outcome = "returned"

C2_Witness ==
    \E s \in Slots :
        /\ finallyFailed(calls[s]) /\ calls[s].verb = sStore
        /\ lineage = "v2020" /\ calls[s].attempts = 1 + MaxRetries
        /\ calls[s].outcome = "returned"

\* C3: a delete whose storage call failed on every attempt returns normally.
C3_DeleteSwallows ==
    \A s \in Slots :
        (finallyFailed(calls[s]) /\ calls[s].verb = sDelete) => calls[s].outcome = "returned"

C3_Witness ==
    \E s \in Slots :
        /\ finallyFailed(calls[s]) /\ calls[s].verb = sDelete
        /\ lineage = "v2020" /\ calls[s].attempts = 1 + MaxRetries
        /\ calls[s].outcome = "returned"

(* ---- properties of the stored objects ---- *)
\* where the object of cache entry (invocation g, classifier) lives, as
\* resolved from the invocation and the classifier alone
entryAt(g, classifier) ==
    LET gi == GoalInvocation(g)
        block == cache[gi.configuration]
    IN  <<getCacheConfig(gi, block).bucket, resolveCachePath(lineage, gi, block, <<classifier>>)>>

\* the storage call of the call in slot s is answered in this step
answered(s, verb, pc) == calls[s].pc = "inflight" /\ calls[s].verb = verb /\ calls'[s].pc = pc

C5_DeleteRemoves ==
    [][\A s \in Slots :
        answered(s, sDelete, "resolved") =>
            entryAt(calls[s].gi, calls[s].classifier) \notin DOMAIN objects']_vars

C5_Witness ==
    \E s, t \in Slots :
        /\ calls[s].pc = "done" /\ calls[s].verb = sStore /\ calls[s].error = <<>>
        /\ calls[t].pc = "done" /\ calls[t].verb = sDelete /\ calls[t].error = <<>>
        /\ calls[t].gi = calls[s].gi /\ calls[t].classifier = calls[s].classifier
        /\ entryAt(calls[t].gi, calls[t].classifier) \notin DOMAIN objects

sDashCacheTarGz == <<"-">> \o sCacheTarGz

\* the object key of test/cache.test.ts ("should return a reasonable path")
segmentedKey(path, gi, classifier) ==
    join(<<path, gi.workspaceId, gi.providerId, gi.owner, gi.repo, gi.branch, classifier,
           gi.sha \o sDashCacheTarGz>>, sSlash)

\* C7: getCachePath returns exactly
\* <path>/<workspaceId>/<providerId>/<owner>/<repo>/<branch>/<classifier>/<sha>-cache.tar.gz
\* for the resolved path prefix and the invocation's metadata.
C7_SegmentedKey ==
    ret.fn = "getCachePath" =>
        ret.path = <<segmentedKey(ret.config.path, GoalInvocation(ret.gi), classifierOrDefault(ret.classifier))>>

\* two running or finished calls are for different cache entries
entriesDiffer(c, d) ==
    LET gc == GoalInvocation(c.gi)
        gd == GoalInvocation(d.gi)
    IN  \/ c.classifier # d.classifier
        \/ gc.workspaceId # gd.workspaceId \/ gc.providerId # gd.providerId
        \/ gc.owner # gd.owner \/ gc.repo # gd.repo
        \/ gc.branch # gd.branch \/ gc.sha # gd.sha

\* C8: calls for cache entries that differ in workspace, provider, owner,
\* repository, branch, revision or classifier, with the same bucket and path
\* prefix, never address the same object key.
C8_KeyDistinct ==
    \A s, t \in Slots :
        ( /\ calls[s].pc # "idle" /\ calls[t].pc # "idle"
          /\ entriesDiffer(calls[s], calls[t])
          /\ calls[s].bucket = calls[t].bucket
          /\ cache[GoalInvocation(calls[s].gi).configuration] = cache[GoalInvocation(calls[t].gi).configuration] )
        => calls[s].cachePath # calls[t].cachePath

(* ---- properties of getCacheConfig ---- *)
\* the default bucket names the tests expect
expectedDefaultBucket(g) ==
    CASE g = 1 -> sBucketRodeo
      [] g = 2 -> sBucketWsx
      [] g = 3 -> sBucketMessy
      [] g = 4 -> sBucketDashed

noFields(block) ==
    block = NoCache \/ block = <<[bucket |-> <<>>, enabled |-> <<>>, path |-> <<>>]>>

\* C9: without a cache block, or with a block without fields, getCacheConfig
\* returns enabled = false, path = "goal-cache" and the sanitized default
\* bucket; every returned config has its three fields populated.
C9_Defaults ==
    ret.fn = "getCacheConfig" =>
        /\ ret.config.enabled \in BOOLEAN
        /\ ret.config.bucket # <<>>
        /\ ret.config.path # <<>>
        /\ noFields(ret.block) =>
               /\ ret.config.enabled = FALSE
               /\ ret.config.path = sGoalCache
               /\ ret.config.bucket = expectedDefaultBucket(ret.gi)

C9_Witness ==
    /\ ret.fn = "getCacheConfig" /\ ret.gi = 3
    /\ ret.block = <<[bucket |-> <<>>, enabled |-> <<>>, path |-> <<>>]>>
    /\ ret.config = [enabled |-> FALSE, bucket |-> sBucketMessy, path |-> sGoalCache]

\* C10 as stated: each of bucket, path and enabled that the block supplies
\* is returned as given, whatever its value.
C10_SuppliedValueKept ==
    (ret.fn = "getCacheConfig" /\ ret.block # NoCache) =>
        LET b == ret.block[1] IN
        /\ b.bucket # <<>> => ret.config.bucket = b.bucket[1]
        /\ b.path # <<>> => ret.config.path = b.path[1]
        /\ b.enabled # <<>> => ret.config.enabled = b.enabled[1]

\* C10 (amended): per field, a supplied enabled value and a supplied
\* non-empty bucket or path are returned as given; a field that is absent,
\* or a bucket or path that is the empty string, receives its default.
C10_TruthyValueKept ==
    ret.fn = "getCacheConfig" =>
        LET b == IF ret.block = NoCache THEN [bucket |-> <<>>, enabled |-> <<>>, path |-> <<>>]
                 ELSE ret.block[1]
        IN
        /\ ret.config.bucket = IF b.bucket \in {<<>>, <<sEmpty>>}
                               THEN expectedDefaultBucket(ret.gi) ELSE b.bucket[1]
        /\ ret.config.path = IF b.path \in {<<>>, <<sEmpty>>} THEN sGoalCache ELSE b.path[1]
        /\ ret.config.enabled = IF b.enabled = <<>> THEN FALSE ELSE b.enabled[1]

C10_Witness ==
    /\ ret.fn = "getCacheConfig"
    /\ ret.block = <<[bucket |-> <<>>, enabled |-> <<TRUE>>, path |-> <<sLazyDays>>]>>
    /\ ret.config = [enabled |-> TRUE, bucket |-> expectedDefaultBucket(ret.gi), path |-> sLazyDays]


(* ---- properties of the default bucket name ---- *)
\* "sdm-<workspaceId>-<appName>-goal-cache" before it is sanitized
rawBucketName(g) ==
    sSdmDash \o GoalInvocation(g).workspaceId \o sDash
        \o configurationName(GoalInvocation(g).configuration) \o sDashGoalCache

\* the characters of s from position i on that are a-z, 0-9 or "-"
RECURSIVE allowedFrom(_, _)
allowedFrom(s, i) ==
    IF i > Len(s) THEN <<>>
    ELSE (IF s[i] \in BucketChars THEN <<s[i]>> ELSE <<>>) \o allowedFrom(s, i + 1)

\* the characters of s from position i on, without the dashes that follow
\* a dash
RECURSIVE singleDashesFrom(_, _)
singleDashesFrom(s, i) ==
    IF i > Len(s) THEN <<>>
    ELSE (IF s[i] = "-" /\ i > 1 /\ s[i - 1] = "-" THEN <<>> ELSE <<s[i]>>) \o singleDashesFrom(s, i + 1)

\* the sanitized form as the documentation words it: lower case, then only
\* letters, digits and dashes, then one dash for every run of dashes
sanitized(s) == singleDashesFrom(allowedFrom(toLowerCase(s), 1), 1)

\* the block leaves the bucket to its default
bucketDefaulted(block) == block = NoCache \/ block[1].bucket \in {<<>>, <<sEmpty>>}

\* C11: the default bucket is "sdm-<workspaceId>-<appName>-goal-cache" in
\* lower case, without the characters other than a-z, 0-9 and "-", and then
\* with every run of dashes collapsed to one; it holds only a-z, 0-9 and "-"
\* and no two dashes in a row.
C11_SanitizedBucket ==
    (ret.fn = "getCacheConfig" /\ bucketDefaulted(ret.block)) =>
        LET b == ret.config.bucket IN
        /\ b = sanitized(rawBucketName(ret.gi))
        /\ b = expectedDefaultBucket(ret.gi)
        /\ \A i \in 1..Len(b) : b[i] \in BucketChars
        /\ \A i \in 1..(Len(b) - 1) : ~(b[i] = "-" /\ b[i + 1] = "-")

C11_Witness ==
    /\ ret.fn = "getCacheConfig" /\ ret.gi = 4 /\ bucketDefaulted(ret.block)
    /\ ret.config.bucket = sBucketDashed


(* ---- getCacheConfig applied again ---- *)
\* a cache block that sets bucket, path and enabled, the strings non-empty
fullySpecified(block) ==
    /\ block # NoCache
    /\ block[1].bucket \notin {<<>>, <<sEmpty>>}
    /\ block[1].path \notin {<<>>, <<sEmpty>>}
    /\ block[1].enabled # <<>>

\* a resolved config as a cache block
asBlock(config) ==
    <<[bucket |-> <<config.bucket>>, enabled |-> <<config.enabled>>, path |-> <<config.path>>]>>

\* C12: getCacheConfig returns a config for every input; resolving a block
\* that already sets bucket, path and enabled returns these three values,
\* and resolving again, either the returned config or the invocation as the
\* call left it, returns what the first resolution returned.
C12_TotalIdempotent ==
    ret.fn = "getCacheConfig" =>
        LET gi == GoalInvocation(ret.gi) IN
        /\ DOMAIN ret.config = {"bucket", "enabled", "path"}
        /\ fullySpecified(ret.block) => asBlock(ret.config) = ret.block
        /\ fullySpecified(asBlock(ret.config))
        /\ getCacheConfig(gi, asBlock(ret.config)) = ret.config
        /\ getCacheConfig(gi, cache[gi.configuration]) = ret.config

\* a second resolution: the block is what a first resolution of an empty
\* block left behind
C12_Witness ==
    /\ ret.fn = "getCacheConfig" /\ ret.gi = 1
    /\ ret.block = <<[bucket |-> <<sBucketRodeo>>, enabled |-> <<FALSE>>, path |-> <<sGoalCache>>]>>
    /\ asBlock(ret.config) = ret.block


(* ---- properties of the retry ---- *)
\* C13: in store, retrieve and delete a failed storage call is attempted
\* again; a failure is final only after more than one and at most a bounded
\* number of attempts, and a call whose storage call succeeded on some
\* attempt ends as a success with no error logged or raised.
C13_BoundedRetry ==
    \A s \in Slots :
        /\ finallyFailed(calls[s]) =>
               calls[s].attempts > 1 /\ calls[s].attempts <= 1 + MaxRetries
        /\ (calls[s].pc = "done" /\ calls[s].error = <<>>) =>
               /\ calls[s].outcome = "returned"
               /\ \A i \in 1..Len(clientLog[s]) : clientLog[s][i].level # "error"


(* ---- properties of the failure message ---- *)
sFailed == <<"F", "a", "i", "l", "e", "d">>
sTo == <<"t", "o">>
sCache == <<"c", "a", "c", "h", "e">>
sArchive == <<"a", "r", "c", "h", "i", "v", "e">>
sColon == <<":">>
sSpace == <<" ">>
\* "Failed to <verb> cache archive <uri>: <original>"
failureMessage(verb, uri, original) ==
    join(<<sFailed, sTo, verb, sCache, sArchive, uri \o sColon, original>>, sSpace)

\* the catch block runs in this step for the call in slot s
caught(s) == calls[s].pc = "rejected" /\ calls'[s].pc = "done"

\* C14: when gcs catches the final failure, the message of the error becomes
\* "Failed to <verb> cache archive <uri>: <original message>"; that message,
\* not the original, is what both sinks receive at error level, and it is the
\* message of the error a retrieve raises.
C14_MessageRewritten ==
    [][\A s \in Slots : caught(s) =>
          LET c == calls[s]
              uri == sGs \o c.bucket \o sSlash \o c.cachePath
              message == failureMessage(c.verb, uri, c.error[1])
          IN  /\ calls'[s].error = <<message>>
              /\ message # c.error[1]
              /\ clientLog'[s] = Append(clientLog[s], [level |-> "error", msg |-> message])
              /\ progressLog'[s] = Append(progressLog[s], message)
              /\ c.verb = sRetrieve => calls'[s].outcome = "thrown"
      ]_vars

sUriPilgrim2020 == sGs \o sBucketRodeo \o sSlash \o sGoalCache \o sSlash \o sPilgrim \o sSlash \o sCacheTarGz
C14_Witness ==
    \E s \in Slots :
        /\ lineage = "v2020"
        /\ calls[s].pc = "done" /\ calls[s].verb = sRetrieve /\ calls[s].outcome = "thrown"
        /\ calls[s].error = <<failureMessage(sRetrieve, sUriPilgrim2020, sNoSuchObject)>>
        /\ clientLog[s][Len(clientLog[s])] = [level |-> "error", msg |-> calls[s].error[1]]
        /\ progressLog[s][Len(progressLog[s])] = calls[s].error[1]


(* ---- properties of the log ---- *)
sStoring == <<"s", "t", "o", "r", "i", "n", "g">>
sDeleting == <<"d", "e", "l", "e", "t", "i", "n", "g">>
sRetrieving == <<"r", "e", "t", "r", "i", "e", "v", "i", "n", "g">>
sStored == <<"s", "t", "o", "r", "e", "d">>
sDeleted == <<"d", "e", "l", "e", "t", "e", "d">>
sRetrieved == <<"r", "e", "t", "r", "i", "e", "v", "e", "d">>
presentParticiple(verb) == IF verb = sStore THEN sStoring ELSE IF verb = sDelete THEN sDeleting ELSE sRetrieving
pastTense(verb) == IF verb = sStore THEN sStored ELSE IF verb = sDelete THEN sDeleted ELSE sRetrieved

\* the text msg holds the text part
names(msg, part) == \E i \in 1..(Len(msg) - Len(part) + 1) : SubSeq(msg, i, i + Len(part) - 1) = part

\* the client log holds the same texts as the progress log
sameTexts(s) ==
    /\ Len(clientLog[s]) = Len(progressLog[s])
    /\ \A i \in 1..Len(clientLog[s]) : clientLog[s][i].msg = progressLog[s][i]

C16_InvocationUnchanged == [][cache' = cache]_vars


(* ---- properties of the course of a call ---- *)
Succeeded(c) == c.pc = "done" /\ c.error = <<>> /\ c.outcome = "returned"
FailedSwallowed(c) == c.pc = "done" /\ c.error # <<>> /\ c.outcome = "returned"
FailedRethrown(c) == c.pc = "done" /\ c.error # <<>> /\ c.outcome = "thrown"

\* the steps of one call, in order: resolved and started (in flight), the
\* storage call settled, attempted again or ended
callSteps ==
    {<<"idle", "inflight">>, <<"done", "inflight">>,
     <<"inflight", "resolved">>, <<"inflight", "rejected">>,
     <<"rejected", "inflight">>, <<"resolved", "done">>, <<"rejected", "done">>}

\* C17: a call goes from resolving to in flight to a terminal state and, when
\* every storage call returns, reaches a terminal state: no call stays
\* unfinished for ever, and the only step that finishes one leads to "done".
\* An ended call is in exactly one of Succeeded, Failed-Swallowed and
\* Failed-Rethrown, the last only for retrieve and Failed-Swallowed only for
\* store and delete.
C17_CallTerminates ==
    /\ [](\A s \in Slots :
            LET c == calls[s] IN
            /\ c.pc = "done" => (Succeeded(c) \/ FailedSwallowed(c) \/ FailedRethrown(c))
            /\ c.pc # "done" => c.outcome = "none"
            /\ FailedRethrown(c) => c.verb = sRetrieve
            /\ FailedSwallowed(c) => c.verb \in {sStore, sDelete})
    /\ [][\A s \in Slots : calls'[s].pc # calls[s].pc => <<calls[s].pc, calls'[s].pc>> \in callSteps]_vars
    /\ \A s \in Slots : []<>(calls[s].pc \in {"idle", "done"})

C17_Witness ==
    /\ lineage = "v2020"
    /\ FailedRethrown(calls[1]) /\ calls[1].attempts = 1 + MaxRetries
    /\ FailedSwallowed(calls[2]) /\ calls[2].verb = sStore


(* ---- properties of the classifier in the object key ---- *)
sX == <<"x">>
\* the classifier as it is to appear in the key: "${owner}/${repo}/x" with
\* the owner and the repository name of the invocation, any other
\* classifier as given
expectedClassifier(g, classifier) ==
    IF classifier = sTemplated
    THEN GoalInvocation(g).owner \o sSlash \o GoalInvocation(g).repo \o sSlash \o sX
    ELSE classifier

endsWith(s, suffix) == Len(s) >= Len(suffix) /\ SubSeq(s, Len(s) - Len(suffix) + 1, Len(s)) = suffix

\* C18: the key getCachePath builds for a classifier holds that classifier
\* with every placeholder replaced by the invocation's value, right before
\* the file name; a classifier without placeholders is there as given; no
\* placeholder is left in the key.
C18_PlaceholdersReplaced ==
    (ret.fn = "getCachePath" /\ ret.classifier # <<>>) =>
        /\ endsWith(ret.path[1], sSlash \o expectedClassifier(ret.gi, ret.classifier[1]) \o sSlash \o sCacheTarGz)
        /\ \A ph \in {sPhProviderId, sPhOwner, sPhRepo, sPhBranch} : ~names(ret.path[1], ph)


(* ---- properties of calls for different entries ---- *)
\* C19: calls for different cache entries do not touch one another's object:
\* the object of an entry, when there is one, is the archive a store for that
\* very entry uploaded, whatever calls for other entries ran before, after or
\* in between.
C19_EntriesIndependent ==
    \A e \in Entries :
        entryAt(e[1], e[2]) \in DOMAIN objects =>
            objects[entryAt(e[1], e[2])] = InitialFiles[archiveOf(e[1])]


(* ---- properties of stores to one key ---- *)
\* the call in slot s is a store whose upload succeeded
stored(s) == calls[s].verb = sStore /\ calls[s].pc \in {"resolved", "done"} /\ calls[s].error = <<>>
keyOf(s) == <<calls[s].bucket, calls[s].cachePath>>

sameEntry(s, t) == calls[s].gi = calls[t].gi /\ calls[s].classifier = calls[t].classifier

\* the store in slot 1 and the retrieve in slot 2 are the only calls made
\* since the bucket was empty, and are for one entry
storeThenRetrieve ==
    /\ started = 2
    /\ calls[1].verb = sStore /\ calls[2].verb = sRetrieve /\ sameEntry(1, 2)

enabledOf(s) ==
    getCacheConfig(GoalInvocation(calls[s].gi), cache[GoalInvocation(calls[s].gi).configuration]).enabled

\* the cache block with its enabled value negated
negated(block) == <<[block[1] EXCEPT !.enabled = <<~block[1].enabled[1]>>]>>

\* the storage call of the call in slot s
storageCall(s) == upload(s) \/ fileDelete(s) \/ download(s)

\* C22: the bucket and key of a call are the ones it would have with the
\* opposite enabled value; a call in flight has its storage call pending and
\* no call ends without having made it; a storage call that succeeds has its
\* effect on the object or the file, whatever the enabled value is.
C22_EnabledNotEnforced ==
    /\ [](\A s \in Slots : calls[s].pc # "idle" =>
            LET gi == GoalInvocation(calls[s].gi)
                other == negated(cache[gi.configuration])
            IN  /\ calls[s].bucket = getCacheConfig(gi, other).bucket
                /\ calls[s].cachePath = resolveCachePath(lineage, gi, other, <<calls[s].classifier>>)
                /\ calls[s].pc = "inflight" => ENABLED storageCall(s)
                /\ calls[s].pc \in {"resolved", "rejected", "done"} => calls[s].attempts >= 1)
    /\ [][\A s \in Slots :
            /\ answered(s, sStore, "resolved") =>
                  (keyOf(s) \in DOMAIN objects' /\ objects'[keyOf(s)] = files[calls[s].localPath])
            /\ answered(s, sDelete, "resolved") =>
                  (keyOf(s) \in DOMAIN objects /\ keyOf(s) \notin DOMAIN objects')
            /\ answered(s, sRetrieve, "resolved") =>
                  (keyOf(s) \in DOMAIN objects /\ files'[calls[s].localPath] = objects[keyOf(s)])
      ]_vars

C22_Witness ==
    /\ calls[1].verb = sStore /\ calls[1].pc = "done" /\ calls[1].error = <<>>
    /\ calls[2].verb = sRetrieve /\ calls[2].pc = "done" /\ calls[2].outcome = "returned"
    /\ ~enabledOf(1) /\ ~enabledOf(2)
    /\ "out" \in DOMAIN files /\ files["out"] = files[calls[1].localPath]

====
